---- MODULE Spec2Model ----
(***************************************************************************)
(* A state-machine model of botospere.py: the scoring ledger (users,       *)
(* flags, submissions), the two per-user conversations (/submit and        *)
(* /addflag), the per-user user_data store with its pagination caches, and *)
(* the listing handlers.  One action per handler; the text a handler sends *)
(* back is recorded in the variable reply.                                 *)
(***************************************************************************)
EXTENDS Integers, Sequences, FiniteSets, TLC

VARIABLES
    users,          \* db.users: _id -> [username, points, last_correct_submission]
    flags,          \* db.flags: _id (challenge name) -> [flag, points, post_link, category, level]
    submissions,    \* db.submissions, in insertion order
    admins,         \* db.admins: set of usernames
    clock,          \* number of datetime.utcnow() readings taken so far
    conv_submit,    \* state of submit_conv per user
    conv_addflag,   \* state of addflag_conv per user
    user_data,      \* context.user_data per user
    buttons,        \* callback data of the inline buttons sent to each user
    reply,          \* what the last handler sent back
    inflight        \* the handler runs that are taken one database call at a time

vars == <<users, flags, submissions, admins, clock, conv_submit, conv_addflag,
          user_data, buttons, reply, inflight>>

(***************************************************************************)
(* Bounds of the model.                                                    *)
(***************************************************************************)
\* Recorded attempts (calls of receive_flag that insert) in a behaviour.
MaxAttempts == 3
\* Handler runs that are taken one database call at a time.
MaxRuns == 3
\* Runs of delete_challenge that can be interrupted.
MaxDeleteRuns == 2
\* Page turns that go through the retry loop.
MaxPageTurns == 2
\* Length of a free-text message.
MaxText == 2
\* Recorded attempts in a behaviour of the token step on arbitrary texts.
MaxTokenAttempts == 2
\* Users (and challenges) of the largest store the listings are paged over.
MaxListed == 25
\* Largest page index of a page-turn.
MaxPage == 3
\* Recorded attempts in a behaviour of the two flows together.
MaxFlowAttempts == 1

(***************************************************************************)
(* Values.                                                                 *)
(***************************************************************************)
\* An optional value (a dict key or a document field that may be absent).
None == <<>>
Some(v) == <<v>>
Get(o) == o[1]

\* The identities that send events.
Users == {1, 2}
\* Telegram's user.username for each identity: it may be unset, and it may change
\* from one event to the next.
NoUsername == "<none>"
TgNames(u) == IF u = 1 THEN {"root", NoUsername} ELSE {"bob", NoUsername}

ADMIN_USERNAME == "root"
CATEGORIES == <<"Crypto", "Web", "Forensics", "Pwn", "Reverse">>
LEVELS == <<"Easy", "Medium", "Hard">>
ITEMS_PER_PAGE == 10
SUBMISSIONS_PER_PAGE == 20

END == "END"
SELECT_CHALLENGE == "SELECT_CHALLENGE"
WAIT_FLAG == "WAIT_FLAG"
AF_CATEGORY == "AF_CATEGORY"
AF_NAME == "AF_NAME"
AF_POINTS == "AF_POINTS"
AF_LINK == "AF_LINK"
AF_LEVEL == "AF_LEVEL"
AF_FLAG == "AF_FLAG"
\* The state submit_conv is left in when a handler returns something that is no
\* state of the conversation (the Message returned by the SELECT_CHALLENGE lambda).
UNKNOWN_STATE == "UNKNOWN_STATE"

Min(a, b) == IF a < b THEN a ELSE b
Range(s) == {s[i] : i \in DOMAIN s}

(***************************************************************************)
(* Text: a message is a sequence of characters.                            *)
(***************************************************************************)
RECURSIVE LStrip(_)
LStrip(s) == IF s # <<>> /\ Head(s) = " " THEN LStrip(Tail(s)) ELSE s

RECURSIVE RStrip(_)
RStrip(s) == IF s # <<>> /\ s[Len(s)] = " " THEN RStrip(SubSeq(s, 1, Len(s) - 1)) ELSE s

\* str.strip()
Strip(s) == RStrip(LStrip(s))

\* The non-empty texts of length at most n over the characters cs.
RECURSIVE TextsUpTo(_, _)
TextsUpTo(cs, n) ==
    IF n = 0 THEN {}
    ELSE LET shorter == TextsUpTo(cs, n - 1)
         IN  {<<c>> : c \in cs} \cup shorter \cup {Append(t, c) : t \in shorter, c \in cs}

(***************************************************************************)
(* Replies.                                                                *)
(***************************************************************************)
\* to: the user answered; via: reply_text (a new message) or an edit of the message
\* whose button was pressed; about: the challenge the text names, if any; items:
\* the lines or rows shown; keyboard: the callback data of the message's buttons.
Reply(u, m) ==
    [to |-> u, via |-> "reply_text", msg |-> m, about |-> None, items |-> <<>>,
     keyboard |-> {}]
Page(u, m, items, keyboard) ==
    [to |-> u, via |-> "reply_text", msg |-> m, about |-> None, items |-> items,
     keyboard |-> keyboard]
Edit(u, m) ==
    [to |-> u, via |-> "edit_message_text", msg |-> m, about |-> None, items |-> <<>>,
     keyboard |-> {}]
EditPage(u, m, items, keyboard) ==
    [to |-> u, via |-> "edit_message_text", msg |-> m, about |-> None, items |-> items,
     keyboard |-> keyboard]

EmptyUserData ==
    [challenge |-> None, af_category |-> None, af_name |-> None, af_points |-> None,
     af_link |-> None, af_level |-> None, leaderboard_list |-> None,
     users_list |-> None, submissions_list |-> None, bloods_challenges |-> None]

(***************************************************************************)
(* Helper functions.                                                       *)
(***************************************************************************)
is_admin(username) == username = ADMIN_USERNAME \/ username \in admins

\* users.update_one({_id}, {$set: {username}, $setOnInsert: {points: 0}}, upsert)
add_user_if_not_exists(user_id, username) ==
    LET name == IF username = NoUsername THEN "Unknown" ELSE username
    IN  IF user_id \in DOMAIN users
        THEN [users EXCEPT ![user_id].username = name]
        ELSE [k \in DOMAIN users \cup {user_id} |->
                 IF k = user_id
                 THEN [username |-> name, points |-> 0, last_correct_submission |-> None]
                 ELSE users[k]]

\* The challenges of the catalog the user has no submission for at all.
get_unattempted_challenges(user_id) ==
    LET tried == {submissions[i].challenge : i \in
                     {j \in DOMAIN submissions : submissions[j].user_id = user_id}}
    IN  {ch \in DOMAIN flags : ch \notin tried}

\* The challenges of the catalog the user has no correct submission for.
get_unsolved_challenges(user_id) ==
    LET solved == {submissions[i].challenge : i \in
                      {j \in DOMAIN submissions :
                          submissions[j].user_id = user_id /\ submissions[j].correct}}
    IN  {ch \in DOMAIN flags : ch \notin solved}

(***************************************************************************)
(* Submission flow.                                                        *)
(***************************************************************************)
\* /submit: an entry point of submit_conv, and with allow_reentry accepted in
\* every state of it.
submit_start(u, uname) ==
    LET unsolved == get_unsolved_challenges(u)
    IN  /\ users' = add_user_if_not_exists(u, uname)
        /\ IF unsolved = {}
           THEN /\ reply' = Reply(u, "All challenges solved!")
                /\ conv_submit' = [conv_submit EXCEPT ![u] = END]
                /\ UNCHANGED buttons
           ELSE /\ reply' = Page(u, "Select a challenge to submit:", <<>>,
                                 {<<"submit", ch>> : ch \in unsolved})
                /\ buttons' = [buttons EXCEPT ![u] = @ \cup {<<"submit", ch>> : ch \in unsolved}]
                /\ conv_submit' = [conv_submit EXCEPT ![u] = SELECT_CHALLENGE]
        /\ UNCHANGED <<flags, submissions, admins, clock, conv_addflag, user_data,
                       inflight>>

\* A press of a "submit:<challenge>" button while submit_conv is in SELECT_CHALLENGE.
select_challenge(u, chal) ==
    /\ conv_submit[u] = SELECT_CHALLENGE
    /\ <<"submit", chal>> \in buttons[u]
    /\ user_data' = [user_data EXCEPT ![u].challenge = Some(chal)]
    /\ reply' = [Edit(u, "Submit flag for") EXCEPT !.about = Some(chal)]
    /\ conv_submit' = [conv_submit EXCEPT ![u] = WAIT_FLAG]
    /\ UNCHANGED <<users, flags, submissions, admins, clock, conv_addflag, buttons,
                   inflight>>

\* A text message while submit_conv is in SELECT_CHALLENGE: the lambda's return
\* value, a Message, becomes the conversation's state.
select_challenge_text(u) ==
    /\ conv_submit[u] = SELECT_CHALLENGE
    /\ reply' = Reply(u, "Please select a challenge from the buttons above.")
    /\ conv_submit' = [conv_submit EXCEPT ![u] = UNKNOWN_STATE]
    /\ UNCHANGED <<users, flags, submissions, admins, clock, conv_addflag, user_data, buttons,
                   inflight>>

\* The comparison of the token step.
FlagMatchesRaw(text, secret) == text = secret
FlagMatches(text, secret) == Strip(text) = secret

\* The write on a correct submission: $inc points, $set last_correct_submission.
Award(us, user_id, pts, now) ==
    IF user_id \in DOMAIN us
    THEN [us EXCEPT ![user_id].points = @ + pts,
                    ![user_id].last_correct_submission = Some(now)]
    ELSE us

\* The token step when the selected challenge is no longer in the catalog.
flag_not_found_keeps_waiting(u) ==
    /\ reply' = Reply(u, "Challenge not found.")
    /\ UNCHANGED <<users, submissions, clock, conv_submit>>
flag_not_found(u) ==
    /\ reply' = Reply(u, "Challenge not found.")
    /\ conv_submit' = [conv_submit EXCEPT ![u] = END]
    /\ UNCHANGED <<users, submissions, clock>>

\* The token step on an existing challenge: the attempt is inserted, and a correct
\* one is awarded.
record_attempt(u, chal, text) ==
    LET doc == flags[chal]
        flag_text == Strip(text)
        correct == FlagMatches(text, doc.flag)
        pts == doc.points
    IN  /\ clock' = clock + 2
        /\ submissions' = Append(submissions,
               [user_id |-> u, challenge |-> chal, submitted_flag |-> flag_text,
                correct |-> correct, timestamp |-> clock + 1])
        /\ IF correct
           THEN /\ users' = Award(users, u, pts, clock + 2)
                /\ reply' = Reply(u, "Correct!")
           ELSE /\ users' = users
                /\ reply' = Reply(u, "Incorrect")
        /\ conv_submit' = [conv_submit EXCEPT ![u] = END]

\* A text message while submit_conv is in WAIT_FLAG.
receive_flag(u, text) ==
    /\ conv_submit[u] = WAIT_FLAG
    /\ LET chal == Get(user_data[u].challenge)
       IN  IF chal \notin DOMAIN flags
           THEN flag_not_found(u)
           ELSE record_attempt(u, chal, text)
    /\ UNCHANGED <<flags, admins, conv_addflag, user_data, buttons, inflight>>

\* /cancel: a fallback of both conversations; submit_conv is asked first.
cancel(u) ==
    /\ \/ /\ conv_submit[u] # END
          /\ conv_submit' = [conv_submit EXCEPT ![u] = END]
          /\ UNCHANGED conv_addflag
       \/ /\ conv_submit[u] = END
          /\ conv_addflag[u] # END
          /\ conv_addflag' = [conv_addflag EXCEPT ![u] = END]
          /\ UNCHANGED conv_submit
    /\ reply' = Reply(u, "Operation cancelled.")
    /\ UNCHANGED <<users, flags, submissions, admins, clock, user_data, buttons,
                   inflight>>

(***************************************************************************)
(* int(): the text, stripped, is an optional sign followed by one or more  *)
(* decimal digits; anything else raises ValueError (None here).            *)
(***************************************************************************)
DigitChars == <<"0", "1", "2", "3", "4", "5", "6", "7", "8", "9">>
IsDigit(c) == \E i \in DOMAIN DigitChars : DigitChars[i] = c
DigitVal(c) == (CHOOSE i \in DOMAIN DigitChars : DigitChars[i] = c) - 1

RECURSIVE DigitsValue(_, _)
DigitsValue(s, acc) ==
    IF s = <<>> THEN acc ELSE DigitsValue(Tail(s), 10 * acc + DigitVal(Head(s)))

\* A lenient reading: a text that is no integer counts as zero.
ParseIntOrZero(text) ==
    LET s == Strip(text)
        signed == s # <<>> /\ Head(s) \in {"-", "+"}
        digits == IF signed THEN Tail(s) ELSE s
    IN  IF digits = <<>> \/ \E i \in DOMAIN digits : ~IsDigit(digits[i])
        THEN Some(0)
        ELSE Some(IF signed /\ Head(s) = "-"
                  THEN 0 - DigitsValue(digits, 0)
                  ELSE DigitsValue(digits, 0))

ParseInt(text) ==
    LET s == Strip(text)
        signed == s # <<>> /\ Head(s) \in {"-", "+"}
        digits == IF signed THEN Tail(s) ELSE s
    IN  IF digits = <<>> \/ \E i \in DOMAIN digits : ~IsDigit(digits[i])
        THEN None
        ELSE Some(IF signed /\ Head(s) = "-"
                  THEN 0 - DigitsValue(digits, 0)
                  ELSE DigitsValue(digits, 0))

(***************************************************************************)
(* Entry-creation flow.                                                    *)
(***************************************************************************)
\* A text message reaches addflag_conv only if submit_conv, registered first,
\* has no handler for it in its current state.
TextReachesAddflag(u) == conv_submit[u] \notin {SELECT_CHALLENGE, WAIT_FLAG}

\* /addflag: the entry point of addflag_conv, which has no allow_reentry.
addflag_start(u, uname) ==
    /\ conv_addflag[u] = END
    /\ IF ~is_admin(uname)
       THEN /\ reply' = Reply(u, "Unauthorized.")
            /\ UNCHANGED <<conv_addflag, buttons>>
       ELSE /\ reply' = Page(u, "Select a category:", <<>>,
                             {<<"category", c>> : c \in Range(CATEGORIES)})
            /\ buttons' = [buttons EXCEPT ![u] =
                              @ \cup {<<"category", c>> : c \in Range(CATEGORIES)}]
            /\ conv_addflag' = [conv_addflag EXCEPT ![u] = AF_CATEGORY]
    /\ UNCHANGED <<users, flags, submissions, admins, clock, conv_submit, user_data,
                   inflight>>

select_category(u, category) ==
    /\ conv_addflag[u] = AF_CATEGORY
    /\ <<"category", category>> \in buttons[u]
    /\ user_data' = [user_data EXCEPT ![u].af_category = Some(category)]
    /\ reply' = Edit(u, "Enter challenge name for category")
    /\ conv_addflag' = [conv_addflag EXCEPT ![u] = AF_NAME]
    /\ UNCHANGED <<users, flags, submissions, admins, clock, conv_submit, buttons,
                   inflight>>

af_name(u, text) ==
    /\ TextReachesAddflag(u)
    /\ conv_addflag[u] = AF_NAME
    /\ user_data' = [user_data EXCEPT ![u].af_name = Some(Strip(text))]
    /\ reply' = Reply(u, "Enter points value:")
    /\ conv_addflag' = [conv_addflag EXCEPT ![u] = AF_POINTS]
    /\ UNCHANGED <<users, flags, submissions, admins, clock, conv_submit, buttons,
                   inflight>>

af_points(u, text) ==
    /\ TextReachesAddflag(u)
    /\ conv_addflag[u] = AF_POINTS
    /\ IF ParseInt(text) = None
       THEN /\ reply' = Reply(u, "Please enter a valid integer for points.")
            /\ UNCHANGED <<user_data, conv_addflag>>
       ELSE /\ user_data' = [user_data EXCEPT ![u].af_points = ParseInt(text)]
            /\ reply' = Reply(u, "Enter Telegram post link:")
            /\ conv_addflag' = [conv_addflag EXCEPT ![u] = AF_LINK]
    /\ UNCHANGED <<users, flags, submissions, admins, clock, conv_submit, buttons,
                   inflight>>

af_link(u, text) ==
    /\ TextReachesAddflag(u)
    /\ conv_addflag[u] = AF_LINK
    /\ user_data' = [user_data EXCEPT ![u].af_link = Some(Strip(text))]
    /\ reply' = Page(u, "Select difficulty level:", <<>>,
                     {<<"level", l>> : l \in Range(LEVELS)})
    /\ buttons' = [buttons EXCEPT ![u] = @ \cup {<<"level", l>> : l \in Range(LEVELS)}]
    /\ conv_addflag' = [conv_addflag EXCEPT ![u] = AF_LEVEL]
    /\ UNCHANGED <<users, flags, submissions, admins, clock, conv_submit, inflight>>

select_level(u, level) ==
    /\ conv_addflag[u] = AF_LEVEL
    /\ <<"level", level>> \in buttons[u]
    /\ user_data' = [user_data EXCEPT ![u].af_level = Some(level)]
    /\ reply' = Edit(u, "Enter the correct flag string for")
    /\ conv_addflag' = [conv_addflag EXCEPT ![u] = AF_FLAG]
    /\ UNCHANGED <<users, flags, submissions, admins, clock, conv_submit, buttons,
                   inflight>>

\* flags.update_one({_id: name}, {$set: {...}}, upsert=True)
upsert_flag(name, doc) ==
    [k \in DOMAIN flags \cup {name} |-> IF k = name THEN doc ELSE flags[k]]

af_flag(u, text) ==
    /\ TextReachesAddflag(u)
    /\ conv_addflag[u] = AF_FLAG
    /\ flags' = upsert_flag(Get(user_data[u].af_name),
                    [flag |-> Strip(text),
                     points |-> Get(user_data[u].af_points),
                     post_link |-> Get(user_data[u].af_link),
                     category |-> Get(user_data[u].af_category),
                     level |-> Get(user_data[u].af_level)])
    /\ reply' = Reply(u, "Challenge added/updated")
    /\ conv_addflag' = [conv_addflag EXCEPT ![u] = END]
    /\ UNCHANGED <<users, submissions, admins, clock, conv_submit, user_data, buttons,
                   inflight>>

(***************************************************************************)
(* /delete <challenge>                                                     *)
(***************************************************************************)
\* " ".join(context.args)
RECURSIVE JoinArgs(_)
JoinArgs(args) ==
    IF args = <<>> THEN <<>>
    ELSE IF Len(args) = 1 THEN Head(args)
    ELSE Head(args) \o <<" ">> \o JoinArgs(Tail(args))

\* for s in submissions.find({challenge: name, correct: True}): $inc points by -pts
RECURSIVE reverse_points(_, _, _, _)
reverse_points(us, subs, name, pts) ==
    IF subs = <<>> THEN us
    ELSE LET s == Head(subs)
             hit == s.challenge = name /\ s.correct /\ s.user_id \in DOMAIN us
         IN  reverse_points(IF hit THEN [us EXCEPT ![s.user_id].points = @ - pts] ELSE us,
                            Tail(subs), name, pts)

\* submissions.delete_many({challenge: name})
delete_correct_submissions(subs, name) ==
    SelectSeq(subs, LAMBDA s : ~(s.challenge = name /\ s.correct))
\* submissions.delete_many({}): a deletion that is not scoped to the challenge.
delete_all_submissions(subs, name) == <<>>
delete_submissions(subs, name) ==
    SelectSeq(subs, LAMBDA s : s.challenge # name)

\* flags.delete_one({_id: name})
delete_flag(fl, name) == [k \in DOMAIN fl \ {name} |-> fl[k]]

delete_challenge(u, uname, args) ==
    /\ IF ~is_admin(uname)
       THEN /\ reply' = Reply(u, "Unauthorized.")
            /\ UNCHANGED <<users, submissions, flags>>
       ELSE IF args = <<>>
       THEN /\ reply' = Reply(u, "Usage: /delete <challenge>")
            /\ UNCHANGED <<users, submissions, flags>>
       ELSE LET name == Strip(JoinArgs(args))
            IN  IF name \notin DOMAIN flags
                THEN /\ reply' = Reply(u, "Challenge does not exist.")
                     /\ UNCHANGED <<users, submissions, flags>>
                ELSE /\ users' = reverse_points(users, submissions, name, flags[name].points)
                     /\ submissions' = delete_submissions(submissions, name)
                     /\ flags' = delete_flag(flags, name)
                     /\ reply' = Reply(u, "Challenge and all related data deleted.")
    /\ UNCHANGED <<admins, clock, conv_submit, conv_addflag, user_data, buttons,
                   inflight>>

(***************************************************************************)
(* The ledger: the submission flow and /delete on a catalog of two         *)
(* challenges that the entry-creation flow has put there.                  *)
(***************************************************************************)
ChallengeNames == {<<"X">>, <<"Y">>}
\* The username each identity sends its events under.
LedgerName(u) == IF u = 1 THEN "root" ELSE "bob"
LedgerTexts == {<<"a">>, <<"b">>}
LedgerPoints == {1, 2}
DeleteArgs == {<<>>} \cup {<<n>> : n \in ChallengeNames}

FlagDoc(secret, pts) ==
    [flag |-> secret, points |-> pts, post_link |-> <<"l">>,
     category |-> CATEGORIES[1], level |-> LEVELS[1]]

InitSession ==
    /\ conv_submit = [u \in Users |-> END]
    /\ conv_addflag = [u \in Users |-> END]
    /\ user_data = [u \in Users |-> EmptyUserData]
    /\ buttons = [u \in Users |-> {}]
    /\ reply = Reply(0, "")
    /\ inflight = <<>>

Init ==
    /\ users = <<>>
    /\ \E px \in {1}, py \in LedgerPoints :
           flags = [n \in ChallengeNames |-> FlagDoc(<<"a">>, IF n = <<"X">> THEN px ELSE py)]
    /\ submissions = <<>>
    /\ admins = {}
    /\ clock = 0
    /\ InitSession

Next ==
    \E u \in Users :
        \/ submit_start(u, LedgerName(u))
        \/ \E chal \in ChallengeNames : select_challenge(u, chal)
        \/ \E text \in LedgerTexts : clock < 2 * MaxAttempts /\ receive_flag(u, text)
        \/ cancel(u)
        \/ \E args \in DeleteArgs : delete_challenge(u, LedgerName(u), args)

Spec == Init /\ [][Next]_vars

(***************************************************************************)
(* The ledger's properties.                                                *)
(***************************************************************************)
SolvedBy(u) ==
    {submissions[i].challenge : i \in
        {j \in DOMAIN submissions : submissions[j].user_id = u /\ submissions[j].correct}}

RECURSIVE SumPoints(_)
SumPoints(S) ==
    IF S = {} THEN 0
    ELSE LET c == CHOOSE x \in S : TRUE
         IN  flags[c].points + SumPoints(S \ {c})

CorrectCount(u, name) ==
    Cardinality({i \in DOMAIN submissions :
        /\ submissions[i].user_id = u
        /\ submissions[i].challenge = name
        /\ submissions[i].correct})

\* C1: after any sequence of completed token steps and completed deletions, every
\* user's stored points is the sum of the current point values of the challenges
\* the user has a correct submission for.
PointsEqualSolvedValues ==
    \A u \in DOMAIN users : users[u].points = SumPoints(SolvedBy(u) \cap DOMAIN flags)

\* C3: a token step for a challenge that is no longer in the catalog reports
\* not-found, inserts no submission, changes no user record and ends the flow.
TokenStepOnAbsent(u) ==
    /\ conv_submit[u] = WAIT_FLAG
    /\ Get(user_data[u].challenge) \notin DOMAIN flags
    /\ \E text \in LedgerTexts : receive_flag(u, text)

AbsentChallengeWritesNothing ==
    [][\A u \in Users :
          TokenStepOnAbsent(u) =>
              /\ reply' = Reply(u, "Challenge not found.")
              /\ submissions' = submissions
              /\ users' = users
              /\ conv_submit'[u] = END]_vars

\* C3's case: the flow has just ended on not-found for a challenge that was
\* deleted after it was selected.
AbsentChallengeReported ==
    \E u \in Users :
        /\ reply = Reply(u, "Challenge not found.")
        /\ conv_submit[u] = END
        /\ user_data[u].challenge # None
        /\ Get(user_data[u].challenge) \notin DOMAIN flags

\* C4: a completed /delete of a challenge that each user solved at most once takes
\* the challenge's value off each solver's points exactly once, leaves the other
\* users' points alone, and removes every submission of the challenge and the
\* challenge itself.
Deleted(name) == name \in DOMAIN flags /\ name \notin DOMAIN flags'

DeleteReversesEachSolverOnce ==
    [][\A name \in ChallengeNames :
          (Deleted(name) /\ \A u \in DOMAIN users : CorrectCount(u, name) <= 1) =>
              /\ DOMAIN users' = DOMAIN users
              /\ \A u \in DOMAIN users :
                     users'[u].points =
                         users[u].points
                             - (IF CorrectCount(u, name) = 1 THEN flags[name].points ELSE 0)
              /\ \A i \in DOMAIN submissions' : submissions'[i].challenge # name]_vars

\* C4's case: two attempts were recorded, one correct one by each of the two users,
\* and the challenge both had solved has just been deleted.
TwoSolversReversed ==
    /\ reply.msg = "Challenge and all related data deleted."
    /\ clock = 4
    /\ submissions = <<>>
    /\ Cardinality(DOMAIN flags) = 1
    /\ \A u \in Users :
           /\ u \in DOMAIN users
           /\ users[u].last_correct_submission # None
           /\ users[u].points = 0

(***************************************************************************)
(* The token step on arbitrary texts: one user, one challenge whose secret *)
(* is any text af_flag can have stored.                                    *)
(***************************************************************************)
TokenChars == {"a", "A", " "}
TokenTexts == TextsUpTo(TokenChars, MaxText)
\* af_flag stores the stripped text.
Secrets == {Strip(t) : t \in TokenTexts}
\* The sender of the tokens: a user that is no admin.
PlainUser == CHOOSE u \in Users : ~(LedgerName(u) = ADMIN_USERNAME)

InitToken ==
    /\ users = <<>>
    /\ \E secret \in Secrets : flags = [n \in {<<"X">>} |-> FlagDoc(secret, 1)]
    /\ submissions = <<>>
    /\ admins = {}
    /\ clock = 0
    /\ InitSession

NextToken ==
    \/ submit_start(PlainUser, LedgerName(PlainUser))
    \/ select_challenge(PlainUser, <<"X">>)
    \/ \E text \in TokenTexts :
           clock < 2 * MaxTokenAttempts /\ receive_flag(PlainUser, text)

SpecToken == InitToken /\ [][NextToken]_vars

Spaces(n) == [i \in 1..n |-> " "]
\* text is secret with whitespace around it.
Padded(secret, text) ==
    \E a, b \in 0..Len(text) : text = Spaces(a) \o secret \o Spaces(b)

\* C2: a token step on an existing challenge appends exactly one submission, of
\* this user for this challenge, and it is marked correct iff the text is the
\* stored secret, character for character, with nothing but whitespace around it.
TokenStepRecordsOne ==
    [][\A text \in TokenTexts :
          (receive_flag(PlainUser, text)
              /\ Get(user_data[PlainUser].challenge) \in DOMAIN flags) =>
              LET chal == Get(user_data[PlainUser].challenge)
                  n == Len(submissions)
              IN  /\ Len(submissions') = n + 1
                  /\ SubSeq(submissions', 1, n) = submissions
                  /\ submissions'[n + 1].user_id = PlainUser
                  /\ submissions'[n + 1].challenge = chal
                  /\ submissions'[n + 1].correct <=> Padded(flags[chal].flag, text)]_vars

\* C2's case: an attempt that differs from the secret only in case was recorded as
\* wrong, and a second attempt as correct.
WrongCaseThenCorrect ==
    /\ Len(submissions) = 2
    /\ flags[<<"X">>].flag = <<"a">>
    /\ submissions[1].submitted_flag = <<"A">>
    /\ ~submissions[1].correct
    /\ submissions[2].correct
    /\ reply = Reply(PlainUser, "Correct!")

(***************************************************************************)
(* Store queries with a sort.  A key is a sequence of integers, compared   *)
(* position by position; documents whose keys are equal come out in any    *)
(* order.                                                                  *)
(***************************************************************************)
RECURSIVE KeyLess(_, _)
KeyLess(a, b) ==
    IF a = <<>> \/ b = <<>> THEN a = <<>> /\ b # <<>>
    ELSE \/ Head(a) < Head(b)
         \/ Head(a) = Head(b) /\ KeyLess(Tail(a), Tail(b))

\* The orders a sort can return of a set of [key, doc] pairs.
RECURSIVE SortedOrders(_)
SortedOrders(S) ==
    IF S = {} THEN {<<>>}
    ELSE LET least == {m \in S : \A x \in S : ~KeyLess(x.key, m.key)}
         IN  UNION {{<<m.doc>> \o rest : rest \in SortedOrders(S \ {m})} : m \in least}

\* users.find()
UserDocs ==
    {[_id |-> id, username |-> users[id].username, points |-> users[id].points,
      last_correct_submission |-> users[id].last_correct_submission] : id \in DOMAIN users}

\* sort([("points", -1), ("last_correct_submission", 1)]): a document without the
\* timestamp field compares as null, and null sorts before every date.
LeaderboardKeyNewestFirst(d) ==
    IF d.last_correct_submission = None
    THEN <<0 - d.points, 0, 0>>
    ELSE <<0 - d.points, 1, 0 - Get(d.last_correct_submission)>>
LeaderboardKey(d) ==
    IF d.last_correct_submission = None
    THEN <<0 - d.points, 0, 0>>
    ELSE <<0 - d.points, 1, Get(d.last_correct_submission)>>

\* users.find() without a sort: the store's natural order, taken as ascending _id.
NaturalKey(d) == <<d._id>>

\* submissions.find().sort("timestamp", -1)
NewestFirstKey(s) == <<0 - s.timestamp>>
\* submissions.find(...).sort("timestamp", 1)
OldestFirstKey(s) == <<s.timestamp>>

(***************************************************************************)
(* Pagination.                                                             *)
(***************************************************************************)
\* items[start:end]
Slice(items, start, end) ==
    LET lo == Min(start, Len(items))
        hi == Min(end, Len(items))
    IN  [i \in 1..(hi - lo) |-> items[lo + i]]

\* The navigation row: Prev when page > 0, Next when end < len(items).
NavButtonsNextOnFullPage(n, page, prefix, per_page) ==
    {<<prefix, page - 1>> : x \in IF page > 0 THEN {1} ELSE {}}
        \cup {<<prefix, page + 1>> : x \in IF (page + 1) * per_page <= n THEN {1} ELSE {}}
NavButtons(n, page, prefix, per_page) ==
    {<<prefix, page - 1>> : x \in IF page > 0 THEN {1} ELSE {}}
        \cup {<<prefix, page + 1>> : x \in IF (page + 1) * per_page < n THEN {1} ELSE {}}

build_menu(items, page, prefix, items_per_page) ==
    [page_items |-> Slice(items, page * items_per_page,
                          page * items_per_page + items_per_page),
     nav |-> NavButtons(Len(items), page, prefix, items_per_page)]

\* The line of one submission: the username is read from db.users when the line is
\* built.
SubmissionLine(r) ==
    [timestamp |-> r.timestamp,
     uname |-> IF r.user_id \in DOMAIN users THEN users[r.user_id].username ELSE "Unknown",
     challenge |-> r.challenge,
     submitted_flag |-> r.submitted_flag,
     status |-> IF r.correct THEN "Correct" ELSE "Wrong"]

build_submissions_message(submissions_list, page) ==
    LET page_submissions ==
            Slice(submissions_list, page * SUBMISSIONS_PER_PAGE,
                  page * SUBMISSIONS_PER_PAGE + SUBMISSIONS_PER_PAGE)
    IN  [lines |-> [i \in DOMAIN page_submissions |-> SubmissionLine(page_submissions[i])],
         nav |-> NavButtons(Len(submissions_list), page, "submissions",
                            SUBMISSIONS_PER_PAGE)]

\* context.user_data.get(key, []): an absent key reads as the empty list.
Cached(u, key) == IF user_data[u][key] = None THEN <<>> ELSE Get(user_data[u][key])

(***************************************************************************)
(* /leaderboard                                                            *)
(***************************************************************************)
LeaderboardItems(all_users) ==
    [i \in DOMAIN all_users |->
        [rank |-> i, username |-> all_users[i].username, points |-> all_users[i].points]]

leaderboard_start(u) ==
    /\ IF DOMAIN users = {}
       THEN /\ reply' = Reply(u, "No users on the leaderboard yet.")
            /\ UNCHANGED <<user_data, buttons>>
       ELSE \E all_users \in SortedOrders({[key |-> LeaderboardKey(d), doc |-> d] :
                                               d \in UserDocs}) :
                LET menu == build_menu(LeaderboardItems(all_users), 0, "lead", ITEMS_PER_PAGE)
                IN  /\ user_data' = [user_data EXCEPT ![u].leaderboard_list = Some(all_users)]
                    /\ reply' = Page(u, "Leaderboard", menu.page_items, menu.nav)
                    /\ buttons' = [buttons EXCEPT ![u] = @ \cup menu.nav]
    /\ UNCHANGED <<users, flags, submissions, admins, clock, conv_submit, conv_addflag,
                   inflight>>

\* A press of a "lead:<page>:nav" button.
leaderboard_page(u, page) ==
    /\ <<"lead", page>> \in buttons[u]
    /\ LET all_users == Cached(u, "leaderboard_list")
           menu == build_menu(LeaderboardItems(all_users), page, "lead", ITEMS_PER_PAGE)
       IN  IF all_users = <<>>
           THEN /\ reply' = Edit(u, "Error: Leaderboard data not found. Please run /leaderboard again.")
                /\ UNCHANGED buttons
           ELSE /\ reply' = EditPage(u, "Leaderboard", menu.page_items, menu.nav)
                /\ buttons' = [buttons EXCEPT ![u] = @ \cup menu.nav]
    /\ UNCHANGED <<users, flags, submissions, admins, clock, conv_submit, conv_addflag,
                   user_data, inflight>>

(***************************************************************************)
(* /viewusers                                                              *)
(***************************************************************************)
UsersItems(all_users) ==
    [i \in DOMAIN all_users |-> [_id |-> all_users[i]._id, username |-> all_users[i].username]]

viewusers_start(u, uname) ==
    /\ IF ~is_admin(uname)
       THEN /\ reply' = Reply(u, "Unauthorized.")
            /\ UNCHANGED <<user_data, buttons>>
       ELSE \E all_users \in SortedOrders({[key |-> NaturalKey(d), doc |-> d] :
                                               d \in UserDocs}) :
                LET menu == build_menu(UsersItems(all_users), 0, "users", ITEMS_PER_PAGE)
                IN  /\ user_data' = [user_data EXCEPT ![u].users_list = Some(all_users)]
                    /\ reply' = Page(u, "Registered Users:", menu.page_items, menu.nav)
                    /\ buttons' = [buttons EXCEPT ![u] = @ \cup menu.nav]
    /\ UNCHANGED <<users, flags, submissions, admins, clock, conv_submit, conv_addflag,
                   inflight>>

\* A press of a "users:<page>:nav" button.
viewusers_page(u, page) ==
    /\ <<"users", page>> \in buttons[u]
    /\ LET all_users == Cached(u, "users_list")
           menu == build_menu(UsersItems(all_users), page, "users", ITEMS_PER_PAGE)
       IN  IF all_users = <<>>
           THEN /\ reply' = Reply(u, "Error: Users data not found. Please run /viewusers again.")
                /\ UNCHANGED buttons
           ELSE /\ reply' = [EditPage(u, "Registered Users:", menu.page_items, menu.nav)
                                EXCEPT !.via = "edit_message_reply_markup"]
                /\ buttons' = [buttons EXCEPT ![u] = @ \cup menu.nav]
    /\ UNCHANGED <<users, flags, submissions, admins, clock, conv_submit, conv_addflag,
                   user_data, inflight>>

(***************************************************************************)
(* /viewsubmissions                                                        *)
(***************************************************************************)
viewsubmissions(u, uname) ==
    /\ IF ~is_admin(uname)
       THEN /\ reply' = Reply(u, "Unauthorized.")
            /\ UNCHANGED <<user_data, buttons>>
       ELSE \E all_submissions \in
                    SortedOrders({[key |-> NewestFirstKey(r), doc |-> r] :
                                     r \in Range(submissions)}) :
                LET message == build_submissions_message(all_submissions, 0)
                IN  /\ user_data' = [user_data EXCEPT
                                        ![u].submissions_list = Some(all_submissions)]
                    /\ IF all_submissions = <<>>
                       THEN /\ reply' = Reply(u, "No submissions yet.")
                            /\ UNCHANGED buttons
                       ELSE /\ reply' = Page(u, "Submissions:", message.lines, message.nav)
                            /\ buttons' = [buttons EXCEPT ![u] = @ \cup message.nav]
    /\ UNCHANGED <<users, flags, submissions, admins, clock, conv_submit, conv_addflag,
                   inflight>>

\* A press of a "submissions:<page>:nav" button.
submissions_page(u, page) ==
    /\ <<"submissions", page>> \in buttons[u]
    /\ LET all_submissions == Cached(u, "submissions_list")
           message == build_submissions_message(all_submissions, page)
       IN  IF all_submissions = <<>>
           THEN /\ reply' = Edit(u, "Error: Submissions data not found. Please run /viewsubmissions again.")
                /\ UNCHANGED buttons
           ELSE /\ reply' = EditPage(u, "Submissions:", message.lines, message.nav)
                /\ buttons' = [buttons EXCEPT ![u] = @ \cup message.nav]
    /\ UNCHANGED <<users, flags, submissions, admins, clock, conv_submit, conv_addflag,
                   user_data, inflight>>

(***************************************************************************)
(* /bloods                                                                 *)
(***************************************************************************)
\* The characters of the model in code-point order, and str.lower().
Alphabet ==
    <<" ", "+", "-", "0", "1", "2", "3", "4", "5", "6", "7", "8", "9",
      "A", "B", "C", "X", "Y", "a", "b", "c", "l", "x", "y">>
CharCode(c) == CHOOSE i \in DOMAIN Alphabet : Alphabet[i] = c
LowerChar(c) ==
    CASE c = "A" -> "a" [] c = "B" -> "b" [] c = "C" -> "c"
      [] c = "X" -> "x" [] c = "Y" -> "y" [] OTHER -> c

\* key=lambda x: x['_id'].lower()
NameKeyCaseSensitive(name) == [i \in DOMAIN name |-> CharCode(name[i])]
NameKey(name) == [i \in DOMAIN name |-> CharCode(LowerChar(name[i]))]

\* The $lookup pipeline: the size of the set of user_ids of the challenge's correct
\* submissions.
SolverCountPerSubmission(name) ==
    Cardinality({i \in DOMAIN submissions :
        submissions[i].challenge = name /\ submissions[i].correct})
SolverCount(name) ==
    Cardinality({submissions[i].user_id : i \in
        {j \in DOMAIN submissions :
            submissions[j].challenge = name /\ submissions[j].correct}})

show_challenges_page(u, all_challenges, page, via) ==
    LET start == page * ITEMS_PER_PAGE
        page_challenges == Slice(all_challenges, start, start + ITEMS_PER_PAGE)
        keyboard == {<<"bloods_show", page_challenges[i]._id>> : i \in DOMAIN page_challenges}
                        \cup NavButtons(Len(all_challenges), page, "bloods_page",
                                        ITEMS_PER_PAGE)
    IN  IF all_challenges = <<>>
        THEN /\ reply' = [Reply(u, "No challenges available.") EXCEPT !.via = via]
             /\ UNCHANGED buttons
        ELSE /\ reply' = [Page(u, "All Challenges:", page_challenges, keyboard)
                             EXCEPT !.via = via]
             /\ buttons' = [buttons EXCEPT ![u] = @ \cup keyboard]

bloods_start(u) ==
    /\ \E all_challenges \in
              SortedOrders({[key |-> NameKey(n),
                             doc |-> [_id |-> n, solver_count |-> SolverCount(n)]] :
                               n \in DOMAIN flags}) :
           /\ user_data' = [user_data EXCEPT ![u].bloods_challenges = Some(all_challenges)]
           /\ show_challenges_page(u, all_challenges, 0, "reply_text")
    /\ UNCHANGED <<users, flags, submissions, admins, clock, conv_submit, conv_addflag,
                   inflight>>

\* A press of a "bloods_page:<page>" button.
bloods_page(u, page) ==
    /\ <<"bloods_page", page>> \in buttons[u]
    /\ show_challenges_page(u, Cached(u, "bloods_challenges"), page, "edit_message_text")
    /\ UNCHANGED <<users, flags, submissions, admins, clock, conv_submit, conv_addflag,
                   user_data, inflight>>

\* [s for s in solvers if not (s in seen or seen.add(s))]
RECURSIVE Dedupe(_, _)
Dedupe(solvers, seen) ==
    IF solvers = <<>> THEN <<>>
    ELSE IF Head(solvers) \in seen THEN Dedupe(Tail(solvers), seen)
    ELSE <<Head(solvers)>> \o Dedupe(Tail(solvers), seen \cup {Head(solvers)})

SolverName(sub) ==
    IF sub.user_id \in DOMAIN users THEN users[sub.user_id].username ELSE "Unknown"

\* A press of a "bloods_show:<challenge>" button.
bloods_show_solvers(u, challenge) ==
    /\ <<"bloods_show", challenge>> \in buttons[u]
    /\ \E solved_submissions \in
              SortedOrders({[key |-> OldestFirstKey(r), doc |-> r] :
                               r \in {x \in Range(submissions) :
                                         x.challenge = challenge /\ x.correct}}) :
           LET solvers == [i \in DOMAIN solved_submissions |->
                               SolverName(solved_submissions[i])]
               unique_solvers == Dedupe(solvers, {})
           IN  IF solved_submissions = <<>>
               THEN reply' = [Edit(u, "No solvers yet for") EXCEPT !.about = Some(challenge)]
               ELSE reply' = [EditPage(u, "Solvers for",
                                  [i \in DOMAIN unique_solvers |->
                                      [name |-> unique_solvers[i], firstblood |-> i = 1]],
                                  {})
                                EXCEPT !.about = Some(challenge)]
    /\ UNCHANGED <<users, flags, submissions, admins, clock, conv_submit, conv_addflag,
                   user_data, buttons, inflight>>

(***************************************************************************)
(* A restart of the process: the conversations and user_data live in       *)
(* memory only; the store and the messages already sent stay.              *)
(***************************************************************************)
restart ==
    /\ conv_submit' = [u \in Users |-> END]
    /\ conv_addflag' = [u \in Users |-> END]
    /\ user_data' = [u \in Users |-> EmptyUserData]
    /\ UNCHANGED <<users, flags, submissions, admins, clock, buttons, reply, inflight>>

(***************************************************************************)
(* The ranking: the submission flow of two users, every token correct, on  *)
(* a catalog with a challenge worth a point and one worth nothing, and the *)
(* /leaderboard command.                                                   *)
(***************************************************************************)
InitRank ==
    /\ users = <<>>
    /\ flags = [n \in ChallengeNames |-> FlagDoc(<<"a">>, IF n = <<"X">> THEN 1 ELSE 0)]
    /\ submissions = <<>>
    /\ admins = {}
    /\ clock = 0
    /\ InitSession

NextRank ==
    \E u \in Users :
        \/ submit_start(u, LedgerName(u))
        \/ \E chal \in ChallengeNames : select_challenge(u, chal)
        \/ clock < 2 * MaxAttempts /\ receive_flag(u, <<"a">>)
        \/ leaderboard_start(u)

SpecRank == InitRank /\ [][NextRank]_vars

\* The last reply is the list /leaderboard has just computed for u.
FreshLeaderboard(u) ==
    reply.to = u /\ reply.via = "reply_text" /\ reply.msg = "Leaderboard"

Position(list, id) == CHOOSE i \in DOMAIN list : list[i]._id = id

ListsEachUserOnce(list) ==
    /\ Len(list) = Cardinality(DOMAIN users)
    /\ \A id \in DOMAIN users : \E i \in DOMAIN list : list[i]._id = id

CorrectTimes(id) ==
    {submissions[i].timestamp : i \in
        {j \in DOMAIN submissions : submissions[j].user_id = id /\ submissions[j].correct}}
FirstCorrect(id) == CHOOSE t \in CorrectTimes(id) : \A x \in CorrectTimes(id) : t <= x
Stamped(id) == users[id].last_correct_submission # None
Stamp(id) == Get(users[id].last_correct_submission)

\* C5 as claimed: points descending, and among equal points the user whose first
\* correct submission is earlier comes first.
LeaderboardByFirstCorrect ==
    \A u \in Users :
        FreshLeaderboard(u) =>
            LET list == Get(user_data[u].leaderboard_list)
            IN  /\ ListsEachUserOnce(list)
                /\ \A a, b \in DOMAIN users :
                       /\ users[a].points > users[b].points =>
                              Position(list, a) < Position(list, b)
                       /\ ( /\ users[a].points = users[b].points
                            /\ CorrectTimes(a) # {} /\ CorrectTimes(b) # {}
                            /\ FirstCorrect(a) < FirstCorrect(b) ) =>
                              Position(list, a) < Position(list, b)

\* C5 as amended: points descending, and among users with equal points that both
\* have a scoring timestamp, the user whose stored last_correct_submission (the
\* time of the latest correct submission) is earlier comes first.
LeaderboardByLastCorrect ==
    \A u \in Users :
        FreshLeaderboard(u) =>
            LET list == Get(user_data[u].leaderboard_list)
            IN  /\ ListsEachUserOnce(list)
                /\ \A a, b \in DOMAIN users :
                       /\ users[a].points > users[b].points =>
                              Position(list, a) < Position(list, b)
                       /\ ( /\ users[a].points = users[b].points
                            /\ Stamped(a) /\ Stamped(b)
                            /\ Stamp(a) < Stamp(b) ) =>
                              Position(list, a) < Position(list, b)

\* C5's case: a fresh leaderboard of two users with equal points, where the user
\* whose first correct submission is the earlier one also made the latest correct
\* submission, and is listed second.
TieBrokenByLatest ==
    \E u \in Users : \E a, b \in DOMAIN users :
        /\ FreshLeaderboard(u)
        /\ users[a].points = users[b].points
        /\ CorrectTimes(a) # {} /\ CorrectTimes(b) # {}
        /\ FirstCorrect(a) < FirstCorrect(b)
        /\ Stamp(b) < Stamp(a)
        /\ Position(Get(user_data[u].leaderboard_list), b)
               < Position(Get(user_data[u].leaderboard_list), a)

\* C6: among users with equal points, one without a correct submission and without
\* a scoring timestamp is listed after every one that has them.
UnscoredListedLast ==
    \A u \in Users :
        FreshLeaderboard(u) =>
            LET list == Get(user_data[u].leaderboard_list)
            IN  \A a, b \in DOMAIN users :
                    ( /\ users[a].points = users[b].points
                      /\ ~Stamped(a) /\ CorrectTimes(a) = {}
                      /\ Stamped(b) /\ CorrectTimes(b) # {} ) =>
                        Position(list, b) < Position(list, a)

(***************************************************************************)
(* The solver directory: the submission flow of two users whose Telegram   *)
(* username may be unset, every token correct, and /bloods by the first.   *)
(***************************************************************************)
RootUser == CHOOSE u \in Users : LedgerName(u) = ADMIN_USERNAME

\* The ledger with one user in the submission flow and the admin deleting.
NextLog ==
    \/ submit_start(PlainUser, LedgerName(PlainUser))
    \/ \E chal \in ChallengeNames : select_challenge(PlainUser, chal)
    \/ \E text \in LedgerTexts :
           clock < 2 * MaxAttempts /\ receive_flag(PlainUser, text)
    \/ \E args \in DeleteArgs :
           delete_challenge(RootUser, LedgerName(RootUser), args)

SpecLog == Init /\ [][NextLog]_vars

InitBloods ==
    /\ users = <<>>
    /\ flags = [n \in ChallengeNames |-> FlagDoc(<<"a">>, 1)]
    /\ submissions = <<>>
    /\ admins = {}
    /\ clock = 0
    /\ InitSession

NextBloods ==
    \/ \E u \in Users :
           \/ \E uname \in TgNames(u) : submit_start(u, uname)
           \/ \E chal \in ChallengeNames : select_challenge(u, chal)
           \/ clock < 2 * MaxAttempts /\ receive_flag(u, <<"a">>)
    \/ bloods_start(RootUser)
    \/ \E chal \in ChallengeNames : bloods_show_solvers(RootUser, chal)

SpecBloods == InitBloods /\ [][NextBloods]_vars

\* The users with a correct submission for the challenge, and the time of each one's
\* first.
Solvers(c) ==
    {submissions[i].user_id : i \in
        {j \in DOMAIN submissions : submissions[j].challenge = c /\ submissions[j].correct}}
SolveTimes(id, c) ==
    {submissions[i].timestamp : i \in
        {j \in DOMAIN submissions :
            /\ submissions[j].user_id = id
            /\ submissions[j].challenge = c
            /\ submissions[j].correct}}
FirstSolve(id, c) == CHOOSE t \in SolveTimes(id, c) : \A x \in SolveTimes(id, c) : t <= x
\* The solver with i - 1 solvers before it.
SolverAt(c, i) ==
    CHOOSE id \in Solvers(c) :
        Cardinality({x \in Solvers(c) : FirstSolve(x, c) < FirstSolve(id, c)}) = i - 1

\* C10: the solver directory of a challenge has one line per distinct user with a
\* correct submission for it, in the order of the users' first correct submissions,
\* and only the first line is labelled firstblood.
SolversListedOnceByFirstSolve ==
    \A c \in ChallengeNames :
        (reply.msg = "Solvers for" /\ reply.about = Some(c)) =>
            /\ Len(reply.items) = Cardinality(Solvers(c))
            /\ \A i \in DOMAIN reply.items :
                   /\ reply.items[i].name = users[SolverAt(c, i)].username
                   /\ reply.items[i].firstblood <=> i = 1

\* C11: the badge /bloods shows beside each challenge of the catalog is the number
\* of registered users with at least one correct submission for it, however many
\* correct submissions each of them made.
SolverCountIsDistinctUsers ==
    (reply.msg = "All Challenges:" /\ reply.via = "reply_text") =>
        /\ {reply.items[i]._id : i \in DOMAIN reply.items} = DOMAIN flags
        /\ \A i \in DOMAIN reply.items :
               reply.items[i].solver_count =
                   Cardinality({id \in DOMAIN users :
                                   CorrectCount(id, reply.items[i]._id) >= 1})

\* C11's case: /bloods has just listed a challenge with three correct submissions
\* by two users, and a challenge nobody solved.
ThreeSolvesTwoSolvers ==
    /\ reply.msg = "All Challenges:" /\ reply.via = "reply_text"
    /\ \E i, j \in DOMAIN reply.items :
           /\ reply.items[i].solver_count = 2
           /\ Cardinality({k \in DOMAIN submissions :
                  submissions[k].challenge = reply.items[i]._id /\ submissions[k].correct}) = 3
           /\ reply.items[j].solver_count = 0

(***************************************************************************)
(* The paginated listings over a store of k users and k challenges, where  *)
(* user i has sent a wrong and then the correct token for challenge i:     *)
(* 2k submissions.  The admin issues the listing commands and presses the  *)
(* navigation buttons; the process may restart.                            *)
(***************************************************************************)
ListLengths == {ITEMS_PER_PAGE, ITEMS_PER_PAGE + 1, MaxListed}
PageName(i) == IF i \in Users THEN LedgerName(i) ELSE "user" \o ToString(i)
PageChallenge(i) == <<DigitChars[(i \div 10) + 1], DigitChars[(i % 10) + 1]>>

PagedStore(k) ==
    /\ users = [i \in 1..k |->
                    [username |-> PageName(i), points |-> 1,
                     last_correct_submission |-> Some(4 * i)]]
    /\ flags = [n \in {PageChallenge(i) : i \in 1..k} |-> FlagDoc(<<"a">>, 1)]
    /\ submissions =
           [j \in 1..(2 * k) |->
               [user_id |-> (j + 1) \div 2,
                challenge |-> PageChallenge((j + 1) \div 2),
                submitted_flag |-> IF j % 2 = 1 THEN <<"b">> ELSE <<"a">>,
                correct |-> j % 2 = 0,
                timestamp |-> 2 * j - 1]]
    /\ admins = {}
    /\ clock = 4 * k

InitPages == (\E k \in ListLengths : PagedStore(k)) /\ InitSession

ListingCommand(u) ==
    \/ leaderboard_start(u)
    \/ viewusers_start(u, LedgerName(u))
    \/ viewsubmissions(u, LedgerName(u))
    \/ bloods_start(u)

PageTurn(u) ==
    \E page \in 0..MaxPage :
        \/ leaderboard_page(u, page)
        \/ viewusers_page(u, page)
        \/ submissions_page(u, page)
        \/ bloods_page(u, page)

NextPages ==
    \/ ListingCommand(RootUser)
    \/ PageTurn(RootUser)

SpecPages == InitPages /\ [][NextPages]_vars

\* Items p*s .. min((p+1)*s, n) - 1 of a list, counting from 0.
ExpectedItems(items, p, s) ==
    [i \in 1..(Min((p + 1) * s, Len(items)) - Min(p * s, Len(items))) |-> items[p * s + i]]

\* r shows page p of items, with a previous control iff p > 0 and a next control iff
\* (p+1)*s < n, and no other page-turn control.
ShowsPage(r, items, p, s, prefix) ==
    /\ r.items = ExpectedItems(items, p, s)
    /\ <<prefix, p - 1>> \in r.keyboard <=> p > 0
    /\ <<prefix, p + 1>> \in r.keyboard <=> (p + 1) * s < Len(items)
    /\ \A q \in 0..(MaxPage + 1) : <<prefix, q>> \in r.keyboard => q \in {p - 1, p + 1}

SubmissionLines(list) == [i \in DOMAIN list |-> SubmissionLine(list[i])]

\* The pages build_menu and build_submissions_message make of u's cached lists.
LeaderboardMenusAreSlices(u) ==
    \A p \in 0..MaxPage :
        LET items == LeaderboardItems(Cached(u, "leaderboard_list"))
            menu == build_menu(items, p, "lead", ITEMS_PER_PAGE)
        IN  ShowsPage([items |-> menu.page_items, keyboard |-> menu.nav],
                      items, p, ITEMS_PER_PAGE, "lead")
SubmissionMessagesAreSlices(u) ==
    \A p \in 0..MaxPage :
        LET list == Cached(u, "submissions_list")
            message == build_submissions_message(list, p)
        IN  ShowsPage([items |-> message.lines, keyboard |-> message.nav],
                      SubmissionLines(list), p, SUBMISSIONS_PER_PAGE, "submissions")

\* The step sends u a message with text m.
Sends(u, m) == reply'.to = u /\ reply'.msg = m

\* C7: every page a listing command or a page-turn renders is the slice of the
\* cached list for its page index, with a previous control iff the index is
\* positive and a next control iff items remain after the page; and the same holds
\* of the page build_menu and build_submissions_message make of the cached list for
\* every page index up to MaxPage, a page past the end of the list included.
PagesAreSlices ==
    [][\A u \in Users :
          /\ Sends(u, "Leaderboard") /\ leaderboard_start(u) =>
                 ShowsPage(reply', LeaderboardItems(Cached(u, "leaderboard_list")'),
                           0, ITEMS_PER_PAGE, "lead")
          /\ Sends(u, "Registered Users:") /\ viewusers_start(u, LedgerName(u)) =>
                 ShowsPage(reply', UsersItems(Cached(u, "users_list")'),
                           0, ITEMS_PER_PAGE, "users")
          /\ Sends(u, "Submissions:") /\ viewsubmissions(u, LedgerName(u)) =>
                 ShowsPage(reply', SubmissionLines(Cached(u, "submissions_list")'),
                           0, SUBMISSIONS_PER_PAGE, "submissions")
          /\ Sends(u, "All Challenges:") /\ bloods_start(u) =>
                 ShowsPage(reply', Cached(u, "bloods_challenges")',
                           0, ITEMS_PER_PAGE, "bloods_page")
          /\ \A p \in 0..MaxPage :
                 /\ Sends(u, "Leaderboard") /\ leaderboard_page(u, p) =>
                        /\ ShowsPage(reply', LeaderboardItems(Cached(u, "leaderboard_list")),
                                     p, ITEMS_PER_PAGE, "lead")
                        /\ LeaderboardMenusAreSlices(u)
                 /\ Sends(u, "Registered Users:") /\ viewusers_page(u, p) =>
                        ShowsPage(reply', UsersItems(Cached(u, "users_list")),
                                  p, ITEMS_PER_PAGE, "users")
                 /\ Sends(u, "Submissions:") /\ submissions_page(u, p) =>
                        /\ ShowsPage(reply', SubmissionLines(Cached(u, "submissions_list")),
                                     p, SUBMISSIONS_PER_PAGE, "submissions")
                        /\ SubmissionMessagesAreSlices(u)
                 /\ Sends(u, "All Challenges:") /\ bloods_page(u, p) =>
                        ShowsPage(reply', Cached(u, "bloods_challenges"),
                                  p, ITEMS_PER_PAGE, "bloods_page")]_vars

\* C7's case: 25 users are cached, and the last reply is the third page of the
\* leaderboard: ranks 21 to 25, with a previous control only.
ThirdPageOfTwentyFive ==
    \E u \in Users :
        /\ Len(Cached(u, "leaderboard_list")) = 25
        /\ reply.to = u /\ reply.via = "edit_message_text" /\ reply.msg = "Leaderboard"
        /\ [i \in DOMAIN reply.items |-> reply.items[i].rank] = <<21, 22, 23, 24, 25>>
        /\ reply.keyboard = {<<"lead", 1>>}

(***************************************************************************)
(* The listings when the process may restart between a listing command and *)
(* a page-turn.                                                            *)
(***************************************************************************)
NextExpiry ==
    \/ ListingCommand(RootUser)
    \/ PageTurn(RootUser)
    \/ restart

SpecExpiry == InitPages /\ [][NextExpiry]_vars

\* C8: a page-turn of any of the four listings that finds no cache entry answers
\* that the data is gone and the listing command is to be run again.
DataExpiredMessages ==
    {"Error: Leaderboard data not found. Please run /leaderboard again.",
     "Error: Users data not found. Please run /viewusers again.",
     "Error: Submissions data not found. Please run /viewsubmissions again."}

PageTurnWithoutCacheSaysExpired ==
    [][\A u \in Users : \A p \in 0..MaxPage :
          ( \/ leaderboard_page(u, p) /\ user_data[u].leaderboard_list = None
            \/ viewusers_page(u, p) /\ user_data[u].users_list = None
            \/ submissions_page(u, p) /\ user_data[u].submissions_list = None
            \/ bloods_page(u, p) /\ user_data[u].bloods_challenges = None ) =>
              reply'.msg \in DataExpiredMessages]_vars

(***************************************************************************)
(* The listings while another user sends /submit, under the Telegram       *)
(* username it has at the time.                                            *)
(***************************************************************************)
NextSnapshot ==
    \/ ListingCommand(RootUser)
    \/ PageTurn(RootUser)
    \/ \E uname \in TgNames(PlainUser) : submit_start(PlainUser, uname)

SpecSnapshot == InitPages /\ [][NextSnapshot]_vars

\* What a press of the page-turn button of page p would show u, per listing.
LeaderboardPageOf(u, p) ==
    build_menu(LeaderboardItems(Cached(u, "leaderboard_list")), p, "lead", ITEMS_PER_PAGE)
UsersPageOf(u, p) ==
    build_menu(UsersItems(Cached(u, "users_list")), p, "users", ITEMS_PER_PAGE)
SubmissionsPageOf(u, p) ==
    build_submissions_message(Cached(u, "submissions_list"), p)
BloodsPageOf(u, p) ==
    Slice(Cached(u, "bloods_challenges"), p * ITEMS_PER_PAGE,
          p * ITEMS_PER_PAGE + ITEMS_PER_PAGE)

\* C9: a step that changes the store and leaves u's caches alone (no listing
\* command of u) changes nothing of what any page-turn button u holds would show.
StoreChangesInvisible ==
    [][(users' # users \/ flags' # flags \/ submissions' # submissions) =>
          \A u \in Users :
              user_data'[u] = user_data[u] =>
                  \A p \in 0..MaxPage :
                      /\ <<"lead", p>> \in buttons[u] =>
                             LeaderboardPageOf(u, p)' = LeaderboardPageOf(u, p)
                      /\ <<"users", p>> \in buttons[u] =>
                             UsersPageOf(u, p)' = UsersPageOf(u, p)
                      /\ <<"submissions", p>> \in buttons[u] =>
                             SubmissionsPageOf(u, p)' = SubmissionsPageOf(u, p)
                      /\ <<"bloods_page", p>> \in buttons[u] =>
                             BloodsPageOf(u, p)' = BloodsPageOf(u, p)]_vars

(***************************************************************************)
(* The two flows: /submit and its steps, /addflag and its six steps, and   *)
(* /cancel, of an admin and of a user that is none, on a catalog that      *)
(* holds X.                                                                *)
(***************************************************************************)
FlowNames == {<<"X">>, <<"Z">>}
PointsTexts == {<<"2">>, <<" ", "2">>, <<"2", " ">>, <<"+", "2">>, <<"-", "1">>,
                <<"x">>, <<"+">>, <<" ">>, <<"2", "x">>, <<"2", " ", "2">>,
                <<"-", " ", "1">>}
FlowCategories == {CATEGORIES[1]}
FlowLevels == {LEVELS[1]}

InitFlows ==
    /\ users = <<>>
    /\ flags = [n \in {<<"X">>} |-> FlagDoc(<<"a">>, 1)]
    /\ submissions = <<>>
    /\ admins = {}
    /\ clock = 0
    /\ InitSession

SubmitFlowStep(u) ==
    \/ \E chal \in FlowNames : select_challenge(u, chal)
    \/ select_challenge_text(u)
    \/ clock < 2 * MaxFlowAttempts /\ receive_flag(u, <<"a">>)

AddflagFlowStep(u) ==
    \/ addflag_start(u, LedgerName(u))
    \/ \E category \in FlowCategories : select_category(u, category)
    \/ \E text \in FlowNames : af_name(u, text)
    \/ \E text \in PointsTexts : af_points(u, text)
    \/ af_link(u, <<"l">>)
    \/ \E level \in FlowLevels : select_level(u, level)
    \/ af_flag(u, <<"a">>)

\* Every user sends /submit, /addflag and /cancel; the admin, who can be in both
\* flows, also takes the steps of the submission flow.
NextFlows ==
    \/ \E u \in Users : submit_start(u, LedgerName(u)) \/ AddflagFlowStep(u) \/ cancel(u)
    \/ SubmitFlowStep(RootUser)

SpecFlows == InitFlows /\ [][NextFlows]_vars

\* C12: /cancel is accepted whenever a flow of the user is active, ends every flow
\* the user is in, and leaves the catalog, the submissions, the users' records and
\* the admin set as they are.
CancelEndsTheFlow ==
    [][\A u \in Users :
          /\ (conv_submit[u] # END \/ conv_addflag[u] # END) => ENABLED cancel(u)
          /\ cancel(u) =>
                 /\ conv_submit[u] # END => conv_submit'[u] = END
                 /\ conv_addflag[u] # END => conv_addflag'[u] = END
                 /\ UNCHANGED <<flags, submissions, users, admins>>]_vars

\* The step data each flow accumulates in user_data.
SubmitStepKeys == {"challenge"}
AddflagStepKeys == {"af_category", "af_name", "af_points", "af_link", "af_level"}

\* C13: after /cancel the user's session holds no step data of the flow that was
\* cancelled: the selected challenge of the submission flow, or the category,
\* name, points, link and level of the entry-creation flow, are gone from
\* user_data.
CancelClearsStepData ==
    [][\A u \in Users :
          cancel(u) =>
              \A k \in (IF conv_submit[u] # END THEN SubmitStepKeys ELSE AddflagStepKeys) :
                  user_data'[u][k] = None]_vars

\* C14: while a flow of a user is active its entry command is accepted, and running
\* it puts the flow in its first state: SELECT_CHALLENGE for /submit, AF_CATEGORY
\* for /addflag.
ReentryRestartsTheFlow ==
    [][\A u \in Users :
          /\ conv_submit[u] # END => ENABLED submit_start(u, LedgerName(u))
          /\ conv_addflag[u] # END => ENABLED addflag_start(u, LedgerName(u))
          /\ (conv_submit[u] # END /\ submit_start(u, LedgerName(u))) =>
                 conv_submit'[u] = SELECT_CHALLENGE
          /\ (conv_addflag[u] # END /\ addflag_start(u, LedgerName(u))) =>
                 conv_addflag'[u] = AF_CATEGORY]_vars

\* C15: no user is in the submission flow and in the entry-creation flow at once.
AtMostOneActiveFlow ==
    \A u \in Users : conv_submit[u] = END \/ conv_addflag[u] = END

(***************************************************************************)
(* /addnewadmins                                                           *)
(***************************************************************************)
\* An argument of /addnewadmins: `ats` at-signs followed by a name without one.
AdminArg(ats, name) == [ats |-> ats, name |-> name]
\* str.lstrip("@")
LStripAt(arg) == arg.name

addnewadmins(u, uname, args) ==
    /\ IF ~is_admin(uname)
       THEN /\ reply' = Reply(u, "Unauthorized.")
            /\ UNCHANGED admins
       ELSE IF Len(args) # 1
       THEN /\ reply' = Reply(u, "Usage: /addnewadmins <username>")
            /\ UNCHANGED admins
       ELSE LET new_admin == LStripAt(args[1])
            IN  /\ admins' = admins \cup {new_admin}
                /\ reply' = [Reply(u, "is now an admin.") EXCEPT !.about = Some(new_admin)]
    /\ UNCHANGED <<users, flags, submissions, clock, conv_submit, conv_addflag,
                   user_data, buttons, inflight>>

(***************************************************************************)
(* Authorization: the privileged commands sent under every username an     *)
(* identity can have, while flows are active and lists are cached.         *)
(***************************************************************************)
AdminArgs == {<<>>, <<AdminArg(0, "bob")>>, <<AdminArg(1, "bob")>>,
              <<AdminArg(0, "bob"), AdminArg(0, "root")>>}
AuthDeleteArgs == {<<>>, <<<<"X">>>>, <<<<"Z">>>>}

PrivilegedCommand(u, uname) ==
    \/ addflag_start(u, uname)
    \/ \E args \in AuthDeleteArgs : delete_challenge(u, uname, args)
    \/ \E args \in AdminArgs : addnewadmins(u, uname, args)
    \/ viewusers_start(u, uname)
    \/ viewsubmissions(u, uname)

NextAuth ==
    \/ \E u \in Users : \E uname \in TgNames(u) : PrivilegedCommand(u, uname)
    \/ submit_start(PlainUser, LedgerName(PlainUser))
    \/ select_challenge(PlainUser, <<"X">>)
    \/ clock < 2 * MaxFlowAttempts /\ receive_flag(PlainUser, <<"a">>)
    \/ \E category \in FlowCategories : select_category(RootUser, category)
    \/ cancel(RootUser)

SpecAuth == InitFlows /\ [][NextAuth]_vars

\* C16: a privileged command sent by an identity that is neither the root
\* identity nor in the admin set is answered "Unauthorized." and changes neither
\* the catalog, the submissions, the points, the admin set, the workflow state
\* nor the cached lists.
Unprivileged(uname) == ~(uname = ADMIN_USERNAME \/ uname \in admins)
AnsweredUnauthorized(u) ==
    /\ reply'.to = u /\ reply'.msg = "Unauthorized."
    /\ UNCHANGED <<flags, submissions, users, admins, conv_submit, conv_addflag,
                   user_data>>
UnauthorizedChangesNothing ==
    [][\A u \in Users : \A uname \in TgNames(u) :
          Unprivileged(uname) =>
              /\ ENABLED addflag_start(u, uname)
              /\ PrivilegedCommand(u, uname) => AnsweredUnauthorized(u)]_vars

\* The texts that are an integer literal: optional whitespace, an optional sign,
\* one or more decimal digits, optional whitespace.
IsIntegerText(text) ==
    \E a, b \in 0..Len(text) : \E sign \in {<<>>, <<"+">>, <<"-">>} :
        LET digits == SubSeq(text, a + Len(sign) + 1, Len(text) - b)
        IN  /\ digits # <<>>
            /\ \A i \in DOMAIN digits : digits[i] \in Range(DigitChars)
            /\ text = Spaces(a) \o sign \o digits \o Spaces(b)
IntegerTexts == {text \in PointsTexts : IsIntegerText(text)}
NonIntegerTexts == PointsTexts \ IntegerTexts

\* C17: in the points step a text that is no integer is answered with the
\* re-prompt, keeps the flow in the points step and leaves the user's step data
\* and the catalog as they were, so the step can be taken again; the flow leaves
\* the points step for the link step only on a text that is an integer.
NonIntegerKeepsPointsStep ==
    [][\A u \in Users :
          conv_addflag[u] = AF_POINTS =>
              /\ \A text \in NonIntegerTexts :
                     /\ TextReachesAddflag(u) => ENABLED af_points(u, text)
                     /\ af_points(u, text) =>
                            /\ reply'.msg = "Please enter a valid integer for points."
                            /\ conv_addflag'[u] = AF_POINTS
                            /\ user_data'[u] = user_data[u]
                            /\ flags' = flags
              /\ conv_addflag'[u] = AF_LINK =>
                     \E text \in IntegerTexts : af_points(u, text)]_vars
\* The points step was refused and is still open, after an earlier integer had
\* already been stored by a previous run of the flow.
PointsRefusedStepOpen ==
    \E u \in Users :
        /\ reply.to = u /\ reply.msg = "Please enter a valid integer for points."
        /\ conv_addflag[u] = AF_POINTS
        /\ user_data[u].af_points # None

\* C19: a step either leaves the submission log as it is, or is a token step
\* that appends one record behind the unchanged records, or is a /delete, after
\* which the log holds exactly the earlier records of the other challenges,
\* correct or not, unchanged and in their order.
LogAppended ==
    /\ Len(submissions') = Len(submissions) + 1
    /\ \A i \in DOMAIN submissions : submissions'[i] = submissions[i]
LogCutBy(name) ==
    LET kept == {i \in DOMAIN submissions : submissions[i].challenge # name}
    IN  /\ Len(submissions') = Cardinality(kept)
        /\ \A i \in kept :
               submissions'[Cardinality({j \in kept : j <= i})] = submissions[i]
SubmissionLogAppendOnly ==
    [][\/ submissions' = submissions
       \/ LogAppended /\ \E u \in Users : \E text \in LedgerTexts : receive_flag(u, text)
       \/ \E name \in ChallengeNames :
              /\ LogCutBy(name)
              /\ \E u \in Users : delete_challenge(u, LedgerName(u), <<name>>)]_vars
\* A /delete has just removed a correct and a later incorrect submission of one
\* challenge and kept the submission of the other challenge.
DeleteCutCorrectAndIncorrect ==
    /\ reply.msg = "Challenge and all related data deleted."
    /\ clock = 6
    /\ Len(submissions) = 1
    /\ submissions[1].timestamp > 1
    /\ submissions[1].challenge \in DOMAIN flags
    /\ \E u \in DOMAIN users :
           /\ users[u].last_correct_submission = Some(2)
           /\ \A v \in DOMAIN users \ {u} : users[v].last_correct_submission = None

(***************************************************************************)
(* receive_flag and delete_challenge one database call at a time.  A run   *)
(* is a record of inflight: the handler, its position (the call it makes   *)
(* next) and its locals.  `found` and `pos` are the cursor of              *)
(* submissions.find in delete_challenge: the user ids of the matching      *)
(* documents and the position of the loop in them.                         *)
(***************************************************************************)
ReceiveRun(u, chal, flag_text, correct, pts) ==
    [handler |-> "receive_flag", user |-> u, pc |-> "insert_one", name |-> chal,
     flag_text |-> flag_text, correct |-> correct, pts |-> pts, found |-> <<>>, pos |-> 1]
DeleteRun(u, name, pts) ==
    [handler |-> "delete_challenge", user |-> u, pc |-> "find", name |-> name,
     flag_text |-> <<>>, correct |-> FALSE, pts |-> pts, found |-> <<>>, pos |-> 1]

Running(r) == r.pc \notin {"done", "interrupted"}
\* No run is between two of its database calls.
Idle == \A t \in DOMAIN inflight : ~Running(inflight[t])

\* receive_flag up to flags.find_one and the locals computed from its result.
receive_flag_find_one(u, text) ==
    /\ conv_submit[u] = WAIT_FLAG
    /\ LET chal == Get(user_data[u].challenge)
       IN  IF chal \notin DOMAIN flags
           THEN flag_not_found(u) /\ UNCHANGED inflight
           ELSE /\ inflight' = Append(inflight,
                       ReceiveRun(u, chal, Strip(text), FlagMatches(text, flags[chal].flag),
                                  flags[chal].points))
                /\ UNCHANGED <<users, submissions, clock, conv_submit, reply>>
    /\ UNCHANGED <<flags, admins, conv_addflag, user_data, buttons>>

\* submissions.insert_one; an incorrect attempt is answered right after it.
receive_flag_insert_one(t) ==
    LET r == inflight[t]
    IN  /\ r.handler = "receive_flag" /\ r.pc = "insert_one"
        /\ submissions' = Append(submissions,
               [user_id |-> r.user, challenge |-> r.name, submitted_flag |-> r.flag_text,
                correct |-> r.correct, timestamp |-> clock + 1])
        /\ clock' = clock + 1
        /\ IF r.correct
           THEN /\ inflight' = [inflight EXCEPT ![t].pc = "update_one"]
                /\ UNCHANGED <<reply, conv_submit>>
           ELSE /\ inflight' = [inflight EXCEPT ![t].pc = "done"]
                /\ reply' = Reply(r.user, "Incorrect")
                /\ conv_submit' = [conv_submit EXCEPT ![r.user] = END]
        /\ UNCHANGED <<users, flags, admins, conv_addflag, user_data, buttons>>

\* users.update_one with $inc and $set, and the answer.
receive_flag_update_one(t) ==
    LET r == inflight[t]
    IN  /\ r.handler = "receive_flag" /\ r.pc = "update_one"
        /\ users' = Award(users, r.user, r.pts, clock + 1)
        /\ clock' = clock + 1
        /\ inflight' = [inflight EXCEPT ![t].pc = "done"]
        /\ reply' = Reply(r.user, "Correct!")
        /\ conv_submit' = [conv_submit EXCEPT ![r.user] = END]
        /\ UNCHANGED <<flags, submissions, admins, conv_addflag, user_data, buttons>>

\* delete_challenge up to flags.find_one and pts.
delete_challenge_find_one(u, uname, args) ==
    /\ IF ~is_admin(uname)
       THEN reply' = Reply(u, "Unauthorized.") /\ UNCHANGED inflight
       ELSE IF args = <<>>
       THEN reply' = Reply(u, "Usage: /delete <challenge>") /\ UNCHANGED inflight
       ELSE LET name == Strip(JoinArgs(args))
            IN  IF name \notin DOMAIN flags
                THEN reply' = Reply(u, "Challenge does not exist.") /\ UNCHANGED inflight
                ELSE /\ inflight' = Append(inflight, DeleteRun(u, name, flags[name].points))
                     /\ UNCHANGED reply
    /\ UNCHANGED <<users, flags, submissions, admins, clock, conv_submit, conv_addflag,
                   user_data, buttons>>

\* The user ids of submissions.find({challenge: name, correct: True}).
CorrectSubmitters(subs, name) ==
    LET hits == SelectSeq(subs, LAMBDA s : s.challenge = name /\ s.correct)
    IN  [i \in DOMAIN hits |-> hits[i].user_id]

\* The for loop opens its cursor.
delete_challenge_find(t) ==
    LET r == inflight[t]
    IN  /\ r.handler = "delete_challenge" /\ r.pc = "find"
        /\ inflight' = [inflight EXCEPT ![t].found = CorrectSubmitters(submissions, r.name),
                                        ![t].pc = "update_one"]
        /\ UNCHANGED <<users, flags, submissions, admins, clock, conv_submit, conv_addflag,
                       user_data, buttons, reply>>

\* {$set: {points: delta}}: a write that is no increment.
set_points(us, user_id, delta) ==
    IF user_id \in DOMAIN us THEN [us EXCEPT ![user_id].points = delta] ELSE us
\* users.update_one({_id: user_id}, {$inc: {points: delta}})
inc_points(us, user_id, delta) ==
    IF user_id \in DOMAIN us THEN [us EXCEPT ![user_id].points = @ + delta] ELSE us

\* One pass of the loop body.
delete_challenge_update_one(t) ==
    LET r == inflight[t]
    IN  /\ r.handler = "delete_challenge" /\ r.pc = "update_one"
        /\ r.pos <= Len(r.found)
        /\ users' = inc_points(users, r.found[r.pos], 0 - r.pts)
        /\ inflight' = [inflight EXCEPT ![t].pos = @ + 1]
        /\ UNCHANGED <<flags, submissions, admins, clock, conv_submit, conv_addflag,
                       user_data, buttons, reply>>

\* A deletion of the submissions that does not wait for the loop to end.
delete_challenge_delete_many_early(t) ==
    LET r == inflight[t]
    IN  /\ r.handler = "delete_challenge" /\ r.pc = "update_one"
        /\ submissions' = delete_submissions(submissions, r.name)
        /\ inflight' = [inflight EXCEPT ![t].pc = "delete_one"]
        /\ UNCHANGED <<users, flags, admins, clock, conv_submit, conv_addflag,
                       user_data, buttons, reply>>
\* submissions.delete_many, once the loop has ended.
delete_challenge_delete_many(t) ==
    LET r == inflight[t]
    IN  /\ r.handler = "delete_challenge" /\ r.pc = "update_one"
        /\ r.pos > Len(r.found)
        /\ submissions' = delete_submissions(submissions, r.name)
        /\ inflight' = [inflight EXCEPT ![t].pc = "delete_one"]
        /\ UNCHANGED <<users, flags, admins, clock, conv_submit, conv_addflag,
                       user_data, buttons, reply>>

\* flags.delete_one and the answer.
delete_challenge_delete_one(t) ==
    LET r == inflight[t]
    IN  /\ r.handler = "delete_challenge" /\ r.pc = "delete_one"
        /\ flags' = delete_flag(flags, r.name)
        /\ reply' = Reply(r.user, "Challenge and all related data deleted.")
        /\ inflight' = [inflight EXCEPT ![t].pc = "done"]
        /\ UNCHANGED <<users, submissions, admins, clock, conv_submit, conv_addflag,
                       user_data, buttons>>

\* A database call of the run raises, or the process is stopped: the run ends
\* where it is.
interrupt(t) ==
    /\ Running(inflight[t])
    /\ inflight' = [inflight EXCEPT ![t].pc = "interrupted"]
    /\ UNCHANGED <<users, flags, submissions, admins, clock, conv_submit, conv_addflag,
                   user_data, buttons, reply>>

(***************************************************************************)
(* Interleaving: runs of receive_flag for one user and of delete_challenge *)
(* take their database calls in any order.                                 *)
(***************************************************************************)
NextInterleaved ==
    \/ submit_start(PlainUser, LedgerName(PlainUser))
    \/ \E chal \in ChallengeNames : select_challenge(PlainUser, chal)
    \/ Len(inflight) < MaxRuns /\ receive_flag_find_one(PlainUser, <<"a">>)
    \/ \E name \in ChallengeNames :
           Len(inflight) < MaxRuns
               /\ delete_challenge_find_one(RootUser, LedgerName(RootUser), <<name>>)
    \/ \E t \in DOMAIN inflight : receive_flag_insert_one(t)
    \/ \E t \in DOMAIN inflight : receive_flag_update_one(t)
    \/ \E t \in DOMAIN inflight : delete_challenge_find(t)
    \/ \E t \in DOMAIN inflight : delete_challenge_update_one(t)
    \/ \E t \in DOMAIN inflight : delete_challenge_delete_many(t)
    \/ \E t \in DOMAIN inflight : delete_challenge_delete_one(t)

SpecInterleaved == Init /\ [][NextInterleaved]_vars

\* What a run has added to the points of user id so far.
AppliedDelta(r, id) ==
    IF r.handler = "receive_flag"
    THEN IF r.user = id /\ r.correct /\ r.pc = "done" THEN r.pts ELSE 0
    ELSE (0 - r.pts) * Cardinality({i \in 1..(r.pos - 1) : r.found[i] = id})

RECURSIVE SumApplied(_, _)
SumApplied(n, id) ==
    IF n = 0 THEN 0 ELSE AppliedDelta(inflight[n], id) + SumApplied(n - 1, id)

\* C18: however the database calls of the runs are interleaved, the points of a
\* user, which start at zero, are the sum of the increments and decrements the
\* runs have applied to that user.
PointsAreSumOfAppliedDeltas ==
    \A id \in DOMAIN users : users[id].points = SumApplied(Len(inflight), id)
\* Two correct attempts of one user on different challenges were inserted before
\* either was awarded, a deletion of the first challenge started between them, and
\* all three runs have ended.
InterleavedRunsEnded ==
    /\ Len(inflight) = 3 /\ Idle
    /\ inflight[1].handler = "receive_flag" /\ inflight[1].correct
    /\ inflight[2].handler = "delete_challenge" /\ inflight[2].name = inflight[1].name
    /\ Len(inflight[2].found) = 1
    /\ inflight[3].handler = "receive_flag" /\ inflight[3].correct
    /\ inflight[3].user = inflight[1].user /\ inflight[3].name # inflight[1].name
    /\ Len(submissions) = 1 /\ submissions[1].timestamp = 2
    /\ users[inflight[1].user].points = inflight[3].pts

(***************************************************************************)
(* Interruption: updates are handled one after the other, and a run of     *)
(* delete_challenge, here of challenge X, can end between any two of its   *)
(* database calls.                                                         *)
(***************************************************************************)
NextInterrupted ==
    \/ \E u \in Users : Idle /\ submit_start(u, LedgerName(u))
    \/ \E u \in Users : \E chal \in ChallengeNames : Idle /\ select_challenge(u, chal)
    \/ \E u \in Users :
           Idle /\ clock < 2 * MaxTokenAttempts /\ receive_flag(u, <<"a">>)
    \/ Idle /\ Len(inflight) < MaxDeleteRuns
            /\ delete_challenge_find_one(RootUser, LedgerName(RootUser), <<<<"X">>>>)
    \/ \E t \in DOMAIN inflight : delete_challenge_find(t)
    \/ \E t \in DOMAIN inflight : delete_challenge_update_one(t)
    \/ \E t \in DOMAIN inflight : delete_challenge_delete_many(t)
    \/ \E t \in DOMAIN inflight : delete_challenge_delete_one(t)
    \/ \E t \in DOMAIN inflight : interrupt(t)

SpecInterrupted == Init /\ [][NextInterrupted]_vars

SubmissionsOf(name) == {i \in DOMAIN submissions : submissions[i].challenge = name}
CorrectSubmissionsOf(name) == {i \in SubmissionsOf(name) : submissions[i].correct}
LogOf(name) == SelectSeq(submissions, LAMBDA s : s.challenge = name)

\* C20: in every state of an interrupted or completed /delete, a challenge that
\* is not in the catalog has no submission left; the submissions of a challenge
\* are removed only by a run that has applied one decrement for each correct
\* submission of it; and the challenge is removed only when none of its
\* submissions is left.
AbsentHasNoSubmissions ==
    \A name \in ChallengeNames \ DOMAIN flags : SubmissionsOf(name) = {}
DeleteStepsInOrder ==
    [][/\ AbsentHasNoSubmissions'
       /\ \A name \in ChallengeNames :
              /\ LogOf(name)' # LogOf(name) /\ Len(LogOf(name)') <= Len(LogOf(name)) =>
                     \E t \in DOMAIN inflight :
                         /\ inflight[t].handler = "delete_challenge"
                         /\ inflight[t].name = name
                         /\ Running(inflight[t])
                         /\ inflight[t].pos - 1 = Cardinality(CorrectSubmissionsOf(name))
              /\ (name \in DOMAIN flags /\ name \notin DOMAIN flags') =>
                     SubmissionsOf(name) = {}]_vars
\* A run of /delete was interrupted after its first decrement: the solver has
\* lost the points, and the challenge and the correct submission are still there.
InterruptedAfterDecrement ==
    \E t \in DOMAIN inflight :
        LET r == inflight[t]
        IN  /\ Idle
            /\ r.handler = "delete_challenge" /\ r.pc = "interrupted" /\ r.pos = 2
            /\ r.name \in DOMAIN flags
            /\ CorrectCount(r.found[1], r.name) = 1
            /\ SolvedBy(r.found[1]) = {r.name}
            /\ users[r.found[1]].points = 0

\* C21: /submit offers exactly the challenges of the catalog the user has no
\* correct submission for; when there is none the flow ends at once with nothing
\* offered, otherwise the flow is in SELECT_CHALLENGE.
Unsolved(u) == {ch \in DOMAIN flags : CorrectCount(u, ch) = 0}
SubmitOffersUnsolved ==
    [][\A u \in Users :
          submit_start(u, LedgerName(u)) =>
              /\ reply'.to = u
              /\ reply'.keyboard = {<<"submit", ch>> : ch \in Unsolved(u)}
              /\ conv_submit'[u] = IF Unsolved(u) = {} THEN END ELSE SELECT_CHALLENGE]_vars
\* /submit has just offered one challenge to a user who has solved another
\* challenge of the catalog and has failed the offered one before.
OffersTheUnsolvedOne ==
    \E u \in Users : \E solved, open \in DOMAIN flags :
        /\ reply.to = u /\ reply.msg = "Select a challenge to submit:"
        /\ reply.keyboard = {<<"submit", open>>}
        /\ conv_submit[u] = SELECT_CHALLENGE
        /\ CorrectCount(u, solved) = 1
        /\ \E i \in DOMAIN submissions :
               /\ submissions[i].user_id = u /\ submissions[i].challenge = open
               /\ ~submissions[i].correct

\* C22: every challenge of the catalog has a point value that is not negative.
CatalogPointsNonNegative ==
    \A name \in DOMAIN flags : flags[name].points >= 0

(***************************************************************************)
(* The page turns of /leaderboard and /viewusers with the retry loop       *)
(* around the edit.  A run holds the loop counter `attempt` (the edits     *)
(* tried so far) and `caught`, the outcome of the last edit.               *)
(***************************************************************************)
\* range(3) of the two loops.
LeaderboardEditAttempts == 3
UsersEditAttempts == 3

\* What an edit call does: it succeeds, or raises TimedOut, one of the BadRequests
\* the handler tells apart, another BadRequest, or another exception.
EditOutcomes == {"ok", "TimedOut", "not_modified", "not_found", "BadRequest", "Exception"}

PageRun(handler, u, page) ==
    [handler |-> handler, user |-> u, pc |-> "edit", page |-> page, attempt |-> 0,
     caught |-> "none"]

\* The handler leaves the loop without a message to the user.
GiveUpSilently(u, m) == UNCHANGED reply
\* query.message.reply_text(error text)
GiveUp(u, m) == reply' = Reply(u, m)

\* leaderboard_page up to the loop.
leaderboard_page_begin(u, page) ==
    /\ <<"lead", page>> \in buttons[u]
    /\ IF Cached(u, "leaderboard_list") = <<>>
       THEN /\ reply' = Edit(u, "Error: Leaderboard data not found. Please run /leaderboard again.")
            /\ UNCHANGED inflight
       ELSE /\ inflight' = Append(inflight, PageRun("leaderboard_page", u, page))
            /\ UNCHANGED reply
    /\ UNCHANGED <<users, flags, submissions, admins, clock, conv_submit, conv_addflag,
                   user_data, buttons>>

\* One pass of the loop of leaderboard_page, and what follows the loop.
leaderboard_page_edit(t, outcome) ==
    LET r == inflight[t]
        u == r.user
        menu == build_menu(LeaderboardItems(Cached(u, "leaderboard_list")), r.page, "lead",
                           ITEMS_PER_PAGE)
        tried == [r EXCEPT !.attempt = @ + 1, !.caught = outcome]
        ended == [tried EXCEPT !.pc = "done"]
    IN  /\ r.handler = "leaderboard_page" /\ r.pc = "edit"
        /\ CASE outcome = "ok" ->
                    /\ reply' = EditPage(u, "Leaderboard", menu.page_items, menu.nav)
                    /\ buttons' = [buttons EXCEPT ![u] = @ \cup menu.nav]
                    /\ inflight' = [inflight EXCEPT ![t] = ended]
             [] outcome = "not_modified" ->
                    /\ inflight' = [inflight EXCEPT ![t] = ended]
                    /\ UNCHANGED <<reply, buttons>>
             [] outcome = "not_found" ->
                    /\ reply' = Reply(u, "Error: The leaderboard message is no longer available. Please run /leaderboard again.")
                    /\ inflight' = [inflight EXCEPT ![t] = ended]
                    /\ UNCHANGED buttons
             [] outcome = "Exception" ->
                    /\ GiveUp(u, "Error: Could not update leaderboard. Please try again later.")
                    /\ inflight' = [inflight EXCEPT ![t] = ended]
                    /\ UNCHANGED buttons
             [] outcome \in {"TimedOut", "BadRequest"} ->
                    IF tried.attempt < LeaderboardEditAttempts
                    THEN /\ inflight' = [inflight EXCEPT ![t] = tried]
                         /\ UNCHANGED <<reply, buttons>>
                    ELSE /\ GiveUp(u, "Error: Could not update leaderboard. Please try again later.")
                         /\ inflight' = [inflight EXCEPT ![t] = ended]
                         /\ UNCHANGED buttons
        /\ UNCHANGED <<users, flags, submissions, admins, clock, conv_submit, conv_addflag,
                       user_data>>

\* viewusers_page up to the loop.
viewusers_page_begin(u, page) ==
    /\ <<"users", page>> \in buttons[u]
    /\ IF Cached(u, "users_list") = <<>>
       THEN /\ reply' = Reply(u, "Error: Users data not found. Please run /viewusers again.")
            /\ UNCHANGED inflight
       ELSE /\ inflight' = Append(inflight, PageRun("viewusers_page", u, page))
            /\ UNCHANGED reply
    /\ UNCHANGED <<users, flags, submissions, admins, clock, conv_submit, conv_addflag,
                   user_data, buttons>>

\* One pass of the loop of viewusers_page, and what follows the loop.
viewusers_page_edit(t, outcome) ==
    LET r == inflight[t]
        u == r.user
        menu == build_menu(UsersItems(Cached(u, "users_list")), r.page, "users",
                           ITEMS_PER_PAGE)
        tried == [r EXCEPT !.attempt = @ + 1, !.caught = outcome]
        ended == [tried EXCEPT !.pc = "done"]
    IN  /\ r.handler = "viewusers_page" /\ r.pc = "edit"
        /\ CASE outcome = "ok" ->
                    /\ reply' = [EditPage(u, "Registered Users:", menu.page_items, menu.nav)
                                    EXCEPT !.via = "edit_message_reply_markup"]
                    /\ buttons' = [buttons EXCEPT ![u] = @ \cup menu.nav]
                    /\ inflight' = [inflight EXCEPT ![t] = ended]
             [] outcome = "TimedOut" /\ tried.attempt < UsersEditAttempts ->
                    /\ inflight' = [inflight EXCEPT ![t] = tried]
                    /\ UNCHANGED <<reply, buttons>>
             [] OTHER ->
                    /\ GiveUp(u, "Error: Could not update users list. Please try again.")
                    /\ inflight' = [inflight EXCEPT ![t] = ended]
                    /\ UNCHANGED buttons
        /\ UNCHANGED <<users, flags, submissions, admins, clock, conv_submit, conv_addflag,
                       user_data>>

\* The admin lists and turns pages, one update after the other; every edit can
\* end in every way.
NextRetry ==
    \/ Idle /\ leaderboard_start(RootUser)
    \/ Idle /\ viewusers_start(RootUser, LedgerName(RootUser))
    \/ \E page \in 0..MaxPage :
           Idle /\ Len(inflight) < MaxPageTurns /\ leaderboard_page_begin(RootUser, page)
    \/ \E page \in 0..MaxPage :
           Idle /\ Len(inflight) < MaxPageTurns /\ viewusers_page_begin(RootUser, page)
    \/ \E t \in DOMAIN inflight : \E outcome \in EditOutcomes : leaderboard_page_edit(t, outcome)
    \/ \E t \in DOMAIN inflight : \E outcome \in EditOutcomes : viewusers_page_edit(t, outcome)

\* A store whose lists have two pages.
InitRetry == PagedStore(ITEMS_PER_PAGE + 1) /\ InitSession

SpecRetry == InitRetry /\ [][NextRetry]_vars

RetryErrors ==
    {"Error: Could not update leaderboard. Please try again later.",
     "Error: The leaderboard message is no longer available. Please run /leaderboard again.",
     "Error: Could not update users list. Please try again."}
\* The step has ended run q with the page shown by an edit.
EndsEdited(q) ==
    /\ q.caught = "ok"
    /\ reply'.to = q.user
    /\ reply'.via \in {"edit_message_text", "edit_message_reply_markup"}
    /\ reply'.msg \in {"Leaderboard", "Registered Users:"}
\* The step has ended run q with an error message to the user.
EndsReported(q) ==
    /\ q.caught # "ok"
    /\ reply'.to = q.user /\ reply'.via = "reply_text" /\ reply'.msg \in RetryErrors
\* The step has ended run q of leaderboard_page without a message, because
\* Telegram refused the edit as changing nothing.
EndsUnmodified(q) ==
    /\ q.handler = "leaderboard_page" /\ q.caught = "not_modified"
    /\ reply' = reply
\* A step of the retry loop of run t tries one more edit, never a fourth; the run
\* can always take its next step; cache and conversations stay as they are.
RetryStep(t) ==
    /\ inflight[t].attempt <= 3
    /\ Running(inflight[t]) =>
           /\ inflight[t].attempt < 3
           /\ ENABLED (\E outcome \in EditOutcomes :
                          leaderboard_page_edit(t, outcome) \/ viewusers_page_edit(t, outcome))
    /\ inflight'[t] # inflight[t] =>
           /\ inflight'[t].attempt = inflight[t].attempt + 1
           /\ UNCHANGED <<user_data, conv_submit, conv_addflag>>
TurnStarts ==
    Len(inflight') > Len(inflight) => UNCHANGED <<user_data, conv_submit, conv_addflag>>

AtMostOneCorrectPerChallenge ==
    \A u \in Users : \A name \in ChallengeNames : CorrectCount(u, name) <= 1

(***************************************************************************)
(* Revaluation: a user solves X, the admin upserts X with another positive *)
(* point value through the entry-creation flow, and deletes X.             *)
(***************************************************************************)
NextRevalue ==
    \/ submit_start(PlainUser, LedgerName(PlainUser))
    \/ select_challenge(PlainUser, <<"X">>)
    \/ clock < 2 * MaxFlowAttempts /\ receive_flag(PlainUser, <<"a">>)
    \/ addflag_start(RootUser, LedgerName(RootUser))
    \/ \E category \in FlowCategories : select_category(RootUser, category)
    \/ af_name(RootUser, <<"X">>)
    \/ af_points(RootUser, <<"2">>)
    \/ af_link(RootUser, <<"l">>)
    \/ \E level \in FlowLevels : select_level(RootUser, level)
    \/ af_flag(RootUser, <<"a">>)
    \/ delete_challenge(RootUser, LedgerName(RootUser), <<<<"X">>>>)

SpecRevalue == InitFlows /\ [][NextRevalue]_vars

\* C25: the points of every user are never negative.
UserPointsNonNegative ==
    \A id \in DOMAIN users : users[id].points >= 0

\* What the correct submissions in subs of user id are worth at the values of
\* the catalog fl, summed over the challenges S.
RECURSIVE Owed(_, _, _, _)
Owed(fl, subs, id, S) ==
    IF S = {} THEN 0
    ELSE LET c == CHOOSE x \in S : TRUE
             n == Cardinality({i \in DOMAIN subs :
                      subs[i].user_id = id /\ subs[i].challenge = c /\ subs[i].correct})
         IN  n * fl[c].points + Owed(fl, subs, id, S \ {c})

\* C26: when a run of /delete completes after an earlier run for the same
\* challenge was interrupted, every solver has lost the value of the challenge
\* once for each of its correct submissions in total: the points of every user
\* are the value of the correct submissions that are left.
DeleteRerunDecrementsOnce ==
    [][\A t \in DOMAIN inflight :
          (/\ delete_challenge_delete_one(t)
           /\ \E s \in 1..(t - 1) :
                  /\ inflight[s].handler = "delete_challenge"
                  /\ inflight[s].name = inflight[t].name
                  /\ inflight[s].pc = "interrupted") =>
              \A id \in DOMAIN users :
                  users'[id].points = Owed(flags', submissions', id, DOMAIN flags')]_vars
====
